---- MODULE Spec2Model ----
(***************************************************************************)
(* Model of bedrock/main.py: a script that provisions an Amazon Bedrock    *)
(* guardrail, an execution role and an agent, waits for the agent and its  *)
(* alias to become ready, invokes the agent and reads the event stream.    *)
(*                                                                         *)
(* The script's sections are fenced by triple-quote lines that switch      *)
(* them on and off.  A behaviour of Spec is either a run of the            *)
(* module-level sections in their textual order (create agent, prepare     *)
(* and poll, create alias and poll, invoke, read the stream), or a caller  *)
(* of the functions the module defines (create_guardrail, create_role,     *)
(* check_grounding_and_relevance), which the module-level code itself      *)
(* never calls.  SpecReader takes up a run of the module-level sections    *)
(* where it reaches the invoke_agent call, and answers that call with      *)
(* every stream of the bound.                                              *)
(* SpecAnyShape is that read answered with streams that may also hold      *)
(* events of a shape the loop does not expect.                             *)
(*                                                                         *)
(* The platform is the environment: every service call is answered by a    *)
(* nondeterministic choice among the answers the service can give.         *)
(***************************************************************************)
EXTENDS Naturals, Sequences, FiniteSets, TLC

(***************************************************************************)
(* Bounds of the model.                                                    *)
(***************************************************************************)
\* status fetches the environment answers in one poll loop
MaxPolls == 3
\* events in one response stream
MaxEvents == 3
\* service calls a driver of the functions issues in one run
MaxCalls == 3

(***************************************************************************)
(* 0. Configuration (main.py 93-97) and the script's literals.             *)
(***************************************************************************)
REGION == "us-east-1"
ACCOUNT_ID == "637423356581"
AGENT_ROLE_ARN == "arn:aws:iam::637423356581:role/BedrockAgentExecutionRole"
\* the value of line 94 and the alternative its comment names
Models == {"anthropic.claude-3-haiku-20240307-v1:0", "meta.llama3-8b-instruct-v1:0"}

\* a name not yet bound
Unset == "<unset>"

\* module-level literals of sections 2 to 4
guardrail_id == "k6582ey6du0o"
guardrail_version == "DRAFT"
HardAgentId == "XPPGNLJAJV"
HardAliasId == "H4O0JQYLDK"
user_prompt == "what type of music do you like?"

\* uuid.uuid4(): the hex prefixes and session ids it may give
Uuids == {"162c24", "9f0b7e"}

\* identifiers the platform may return
AgentIds == {"XPPGNLJAJV", "5NCM7AF2D1"}
AliasIds == {"H4O0JQYLDK", "TSTALIASID"}
GuardrailIds == {"k6582ey6du0o", "a6w0gl4ttetz"}

\* agentStatus / agentAliasStatus values the platform may report
AgentStatuses == {"PREPARING", "PREPARED", "FAILED"}
AliasStatuses == {"CREATING", "PREPARED", "FAILED"}

VARIABLES
    pc,               \* the statement the run is at; "raised": an exception ended it
    invocations,      \* the calls of the module's functions made so far, in order
    calls,            \* the service calls issued so far, in order, with their answers
    stdout,           \* what has been printed or written, in order
    FOUNDATION_MODEL, \* configuration, line 94
    agent_id,         \* module-level names
    agent_alias_id,
    session_id,
    status,
    completion,       \* response["completion"], the event stream
    idx,              \* the stream loop's position in completion
    completion_text

vars == <<pc, invocations, calls, stdout, FOUNDATION_MODEL, agent_id, agent_alias_id,
          session_id, status, completion, idx, completion_text>>

\* the answer of a rejected call (botocore ClientError)
ClientError == [error |-> "ClientError"]

Call(api, req, ok, resp) == [api |-> api, req |-> req, ok |-> ok, resp |-> resp]

\* a call of one of the module's functions: its guardrail_id argument, and the
\* place in calls of the first service call it issues
Invocation(fn, gid) == [fn |-> fn, guardrail_id |-> gid, at |-> Len(calls) + 1]

(***************************************************************************)
(* create_role (main.py 10-74)                                             *)
(***************************************************************************)
ROLE_NAME == "BedrockAgentExecutionRole"

\* guardrail_arn left at the "*" of the comment of line 14
guardrail_arn_any(GUARDRAIL_ID) ==
    "arn:aws:bedrock:" \o REGION \o ":" \o ACCOUNT_ID \o ":guardrail/" \o "*"

guardrail_arn(GUARDRAIL_ID) ==
    "arn:aws:bedrock:" \o REGION \o ":" \o ACCOUNT_ID \o ":guardrail/" \o GUARDRAIL_ID

model_arn(model) ==
    "arn:aws:bedrock:" \o REGION \o "::foundation-model/" \o model

\* trust_policy with the guardrail's ARN as the source ARN
trust_policy_of_guardrail(GUARDRAIL_ID) ==
    [Version |-> "2012-10-17",
     Statement |-> <<
        [Effect |-> "Allow",
         Principal |-> [Service |-> "bedrock.amazonaws.com"],
         Action |-> "sts:AssumeRole",
         Condition |->
            [StringEquals |-> ("aws:SourceAccount" :> ACCOUNT_ID),
             ArnLike |-> ("AWS:SourceArn" :> guardrail_arn(GUARDRAIL_ID))]]
     >>]

trust_policy(GUARDRAIL_ID) ==
    [Version |-> "2012-10-17",
     Statement |-> <<
        [Effect |-> "Allow",
         Principal |-> [Service |-> "bedrock.amazonaws.com"],
         Action |-> "sts:AssumeRole",
         Condition |->
            [StringEquals |-> ("aws:SourceAccount" :> ACCOUNT_ID),
             ArnLike |-> ("AWS:SourceArn" :>
                 ("arn:aws:bedrock:" \o REGION \o ":" \o ACCOUNT_ID \o ":agent/*"))]]
     >>]

perm_policy(GUARDRAIL_ID, model) ==
    [Version |-> "2012-10-17",
     Statement |-> <<
        [Sid |-> "InvokeFoundationModels",
         Effect |-> "Allow",
         Action |-> <<"bedrock:InvokeModel", "bedrock:InvokeModelWithResponseStream">>,
         Resource |-> model_arn(model)],
        [Sid |-> "ApplyGuardrail",
         Effect |-> "Allow",
         Action |-> <<"bedrock:ApplyGuardrail">>,
         Resource |-> guardrail_arn(GUARDRAIL_ID)]
     >>]

\* the ARN IAM gives a role it creates in the caller's account
RoleArn == "arn:aws:iam::" \o ACCOUNT_ID \o ":role/" \o ROLE_NAME

\* IAM rejects a second role of the same name
RoleExists == \E i \in 1..Len(calls) : calls[i].api = "create_role" /\ calls[i].ok

\* the policy documents are logged as the dicts json.dumps is given
iam_create_role(GUARDRAIL_ID, ok) ==
    Call("create_role",
         [RoleName |-> ROLE_NAME,
          AssumeRolePolicyDocument |-> trust_policy(GUARDRAIL_ID),
          Description |-> "Executes Amazon Bedrock agents with guardrails applied",
          Tags |-> <<[Key |-> "CreatedBy", Value |-> "script"]>>],
         ok,
         IF ok THEN [Role |-> [Arn |-> RoleArn]] ELSE ClientError)

iam_put_role_policy(GUARDRAIL_ID, model, ok) ==
    Call("put_role_policy",
         [RoleName |-> ROLE_NAME,
          PolicyName |-> "BedrockAgentPermissions",
          PolicyDocument |-> perm_policy(GUARDRAIL_ID, model)],
         ok,
         IF ok THEN [done |-> TRUE] ELSE ClientError)

\* create_role going on to put the policy when iam.create_role was rejected
create_role_swallowing(GUARDRAIL_ID, created, put) ==
    IF ~put
    THEN [calls |-> <<iam_create_role(GUARDRAIL_ID, created),
                      iam_put_role_policy(GUARDRAIL_ID, FOUNDATION_MODEL, FALSE)>>,
          out |-> <<>>, raised |-> TRUE]
    ELSE [calls |-> <<iam_create_role(GUARDRAIL_ID, created),
                      iam_put_role_policy(GUARDRAIL_ID, FOUNDATION_MODEL, TRUE)>>,
          out |-> <<[kind |-> "role_ready", text |-> RoleArn]>>,
          raised |-> FALSE]

\* what create_role does once iam.create_role has answered
create_role_after_create(GUARDRAIL_ID, created, put) ==
    IF ~created
    THEN [calls |-> <<iam_create_role(GUARDRAIL_ID, FALSE)>>,
          out |-> <<>>, raised |-> TRUE]
    ELSE IF ~put
    THEN [calls |-> <<iam_create_role(GUARDRAIL_ID, TRUE),
                      iam_put_role_policy(GUARDRAIL_ID, FOUNDATION_MODEL, FALSE)>>,
          out |-> <<>>, raised |-> TRUE]
    ELSE [calls |-> <<iam_create_role(GUARDRAIL_ID, TRUE),
                      iam_put_role_policy(GUARDRAIL_ID, FOUNDATION_MODEL, TRUE)>>,
          out |-> <<[kind |-> "role_ready", text |-> RoleArn]>>,
          raised |-> FALSE]

create_role(gid) ==
    /\ pc = "driver"
    /\ Len(calls) < MaxCalls
    /\ invocations' = Append(invocations, Invocation("create_role", gid))
    /\ \E created \in BOOLEAN, put \in BOOLEAN :
          /\ created => ~RoleExists
          /\ LET r == create_role_after_create(gid, created, put) IN
                /\ calls' = calls \o r.calls
                /\ stdout' = stdout \o r.out
                /\ pc' = IF r.raised THEN "raised" ELSE "driver"
    /\ UNCHANGED <<FOUNDATION_MODEL, agent_id, agent_alias_id, session_id, status,
                   completion, idx, completion_text>>

(***************************************************************************)
(* create_guardrail (main.py 104-245)                                      *)
(***************************************************************************)
\* the request, with the policy blocks reduced to what identifies them;
\* thresholds in hundredths
guardrail_request(guardrail_name) ==
    [name |-> guardrail_name,
     description |-> "Blocks any mention of heavy-metal music.",
     topicPolicyConfig |-> <<[name |-> "Heavy metal", type |-> "DENY"]>>,
     contentPolicyConfig |-> <<"HATE", "PROMPT_ATTACK">>,
     wordPolicyConfig |-> <<"metal", "rock music", "PROFANITY">>,
     sensitiveInformationPolicyConfig |->
         <<"CREDIT_DEBIT_CARD_NUMBER", "EMAIL", "BITCOIN_WALLET">>,
     contextualGroundingPolicyConfig |->
         <<[type |-> "GROUNDING", threshold |-> 80],
           [type |-> "RELEVANCE", threshold |-> 50]>>,
     blockedInputMessaging |->
         "Sorry, I can't answer questions about heavy-metal music.",
     blockedOutputsMessaging |->
         "Sorry-my answer mentioned heavy-metal music, so I had to block it."]

create_guardrail ==
    /\ pc = "driver"
    /\ Len(calls) < MaxCalls
    /\ invocations' = Append(invocations, Invocation("create_guardrail", ""))
    /\ \E u \in Uuids :
          LET guardrail_name == "demo-guardrail-" \o u
              creating == [kind |-> "creating_guardrail", text |-> guardrail_name]
          IN
          \/ \E gid \in GuardrailIds :
                /\ calls' = Append(calls,
                       Call("create_guardrail", guardrail_request(guardrail_name), TRUE,
                            [guardrailId |-> gid, version |-> "DRAFT"]))
                /\ stdout' = stdout \o
                       <<creating, [kind |-> "guardrail_id", text |-> gid]>>
                /\ pc' = "driver"
          \/ /\ calls' = Append(calls,
                    Call("create_guardrail", guardrail_request(guardrail_name), FALSE,
                         ClientError))
             /\ stdout' = Append(stdout, creating)
             /\ pc' = "raised"
    /\ UNCHANGED <<FOUNDATION_MODEL, agent_id, agent_alias_id, session_id, status,
                   completion, idx, completion_text>>

(***************************************************************************)
(* check_grounding_and_relevance (main.py 356-398)                         *)
(***************************************************************************)
SOURCE == "Paris is the capital of France. Berlin is the capital of Germany."
QUESTION == "What is the capital of Germany?"
\* ANSWERS.items(), in insertion order
ANSWERS == <<[label |-> "grounded", text |-> "Berlin is the capital of Germany."],
             [label |-> "hallucinate", text |-> "The capital of Germany is Munich."]>>

Filter(type, score) == [type |-> type, score |-> score]
GroundingAssessment(filters) == [contextualGroundingPolicy |-> [filters |-> filters]]

\* answers of apply_guardrail: scores in thousandths; the last three lack the
\* structure check() reads
ApplyResponses ==
    { [action |-> "NONE",
       assessments |-> <<GroundingAssessment(
           <<Filter("GROUNDING", 950), Filter("RELEVANCE", 900)>>)>>],
      [action |-> "GUARDRAIL_INTERVENED",
       assessments |-> <<GroundingAssessment(
           <<Filter("GROUNDING", 100), Filter("RELEVANCE", 900)>>)>>],
      [action |-> "NONE", assessments |-> <<>>],
      [action |-> "NONE", assessments |-> <<[topicPolicy |-> [topics |-> <<>>]]>>],
      [action |-> "NONE",
       assessments |-> <<GroundingAssessment(<<Filter("GROUNDING", 950)>>)>>] }

\* resp["assessments"][0]["contextualGroundingPolicy"]["filters"] can be read
HasFilters(resp) ==
    /\ Len(resp.assessments) >= 1
    /\ "contextualGroundingPolicy" \in DOMAIN resp.assessments[1]

apply_guardrail_request(gid, ver, answer) ==
    [guardrailIdentifier |-> gid,
     guardrailVersion |-> ver,
     source |-> "OUTPUT",
     outputScope |-> "FULL",
     content |-> <<[text |-> SOURCE, qualifiers |-> <<"grounding_source">>],
                   [text |-> QUESTION, qualifiers |-> <<"query">>],
                   [text |-> answer, qualifiers |-> <<"guard_content">>]>>]

\* check(answer), lines 372-395: the call, then what it prints, or the exception
check(gid, ver, answer, ok, resp) ==
    IF ~ok
    THEN [calls |-> <<Call("apply_guardrail", apply_guardrail_request(gid, ver, answer),
                           FALSE, ClientError)>>,
          out |-> <<>>, raised |-> TRUE]
    ELSE LET call == Call("apply_guardrail", apply_guardrail_request(gid, ver, answer),
                          TRUE, resp)
         IN
         IF ~HasFilters(resp)
         THEN [calls |-> <<call>>, out |-> <<>>, raised |-> TRUE]
         ELSE LET cg == resp.assessments[1].contextualGroundingPolicy.filters
                  printed == [kind |-> "filters", filters |-> cg]
              IN
              IF Len(cg) < 2
              THEN [calls |-> <<call>>, out |-> <<printed>>, raised |-> TRUE]
              ELSE [calls |-> <<call>>,
                    out |-> <<printed,
                              [kind |-> "check", answer |-> answer,
                               action |-> resp.action,
                               grounding |-> cg[1].score,
                               relevance |-> cg[2].score]>>,
                    raised |-> FALSE]

\* for label, ans in ANSWERS.items(): check(ans), from the i-th answer on
RECURSIVE check_all(_, _, _, _)
check_all(gid, ver, i, answers) ==
    IF i > Len(ANSWERS)
    THEN [calls |-> <<>>, out |-> <<>>, raised |-> FALSE]
    ELSE LET c == check(gid, ver, ANSWERS[i].text, answers[i].ok, answers[i].resp) IN
         IF c.raised
         THEN c
         ELSE LET rest == check_all(gid, ver, i + 1, answers) IN
              [calls |-> c.calls \o rest.calls,
               out |-> c.out \o rest.out,
               raised |-> rest.raised]

check_grounding_and_relevance(gid, ver) ==
    /\ pc = "driver"
    /\ Len(calls) < MaxCalls
    /\ invocations' = Append(invocations, Invocation("check_grounding_and_relevance", gid))
    /\ \E answers \in [1..Len(ANSWERS) -> [ok : BOOLEAN, resp : ApplyResponses]] :
          LET r == check_all(gid, ver, 1, answers) IN
             /\ calls' = calls \o r.calls
             /\ stdout' = stdout \o r.out
             /\ pc' = IF r.raised THEN "raised" ELSE "driver"
    /\ UNCHANGED <<FOUNDATION_MODEL, agent_id, agent_alias_id, session_id, status,
                   completion, idx, completion_text>>

(***************************************************************************)
(* A caller of the module's functions.                                     *)
(***************************************************************************)
\* guardrail ids a caller may pass: those the platform returns, and the "*"
\* the comment of line 14 offers
CallerGuardrailIds == GuardrailIds \cup {"*"}

InitDriver ==
    /\ pc = "driver"
    /\ invocations = <<>>
    /\ calls = <<>>
    /\ stdout = <<>>
    /\ FOUNDATION_MODEL \in Models
    /\ agent_id = Unset
    /\ agent_alias_id = Unset
    /\ session_id = Unset
    /\ status = Unset
    /\ completion = <<>>
    /\ idx = 0
    /\ completion_text = ""

NextDriver ==
    \/ create_guardrail
    \/ \E gid \in CallerGuardrailIds : create_role(gid)
    \/ \E gid \in GuardrailIds : check_grounding_and_relevance(gid, "DRAFT")

(***************************************************************************)
(* 2 - 3.5. Module level: create the agent, prepare it, create the alias   *)
(* (main.py 264-347)                                                       *)
(***************************************************************************)
Fetches(api) == Cardinality({i \in 1..Len(calls) : calls[i].api = api})

InitScript ==
    /\ pc = "create_agent"
    /\ invocations = <<>>
    /\ calls = <<>>
    /\ stdout = <<>>
    /\ FOUNDATION_MODEL = "anthropic.claude-3-haiku-20240307-v1:0"
    /\ agent_id = Unset
    /\ agent_alias_id = Unset
    /\ session_id = Unset
    /\ status = Unset
    /\ completion = <<>>
    /\ idx = 0
    /\ completion_text = ""

create_agent_request(agent_name) ==
    [agentName |-> agent_name,
     foundationModel |-> FOUNDATION_MODEL,
     instruction |-> "You are a friendly music bot.  Obey the guardrail.",
     agentResourceRoleArn |-> AGENT_ROLE_ARN,
     guardrailConfiguration |->
         [guardrailIdentifier |-> guardrail_id, guardrailVersion |-> guardrail_version],
     idleSessionTTLInSeconds |-> 300]

\* lines 264-283
create_agent ==
    /\ pc = "create_agent"
    /\ \E u \in Uuids :
          LET agent_name == "demo-agent-guardrails-" \o u
              creating == [kind |-> "creating_agent", text |-> agent_name]
          IN
          \/ \E id \in AgentIds :
                /\ calls' = Append(calls,
                       Call("create_agent", create_agent_request(agent_name), TRUE,
                            [agent |-> [agentId |-> id]]))
                /\ agent_id' = id
                /\ stdout' = stdout \o <<creating, [kind |-> "agent_id", text |-> id]>>
                /\ pc' = "prepare_agent"
          \/ /\ calls' = Append(calls,
                    Call("create_agent", create_agent_request(agent_name), FALSE,
                         ClientError))
             /\ agent_id' = agent_id
             /\ stdout' = Append(stdout, creating)
             /\ pc' = "raised"
    /\ UNCHANGED <<invocations, FOUNDATION_MODEL, agent_alias_id, session_id, status,
                   completion, idx, completion_text>>

\* lines 294-297
prepare_agent ==
    /\ pc = "prepare_agent"
    /\ agent_id' = HardAgentId
    /\ stdout' = Append(stdout, [kind |-> "preparing", text |-> HardAgentId])
    /\ \E ok \in BOOLEAN :
          /\ calls' = Append(calls,
                 Call("prepare_agent", [agentId |-> HardAgentId], ok,
                      IF ok THEN [agentStatus |-> "PREPARING"] ELSE ClientError))
          /\ pc' = IF ok THEN "poll_agent" ELSE "raised"
    /\ UNCHANGED <<invocations, FOUNDATION_MODEL, agent_alias_id, session_id, status,
                   completion, idx, completion_text>>

\* where one pass of the loop of lines 300-307 leaves the run
after_agent_status(s) ==
    IF s = "PREPARED" THEN "create_agent_alias"
    ELSE IF s = "FAILED" THEN "raised"
    ELSE "poll_agent"

\* one pass of the loop of lines 300-307; line 309 after the break
poll_agent ==
    /\ pc = "poll_agent"
    /\ Fetches("get_agent") < MaxPolls
    /\ \E s \in AgentStatuses :
          /\ calls' = Append(calls,
                 Call("get_agent", [agentId |-> agent_id], TRUE,
                      [agent |-> [agentStatus |-> s]]))
          /\ status' = s
          /\ pc' = after_agent_status(s)
          /\ stdout' = stdout \o <<[kind |-> "status", text |-> s]>> \o
                 (IF after_agent_status(s) = "create_agent_alias"
                  THEN <<[kind |-> "agent_ready", text |-> agent_id]>> ELSE <<>>)
    /\ UNCHANGED <<invocations, FOUNDATION_MODEL, agent_id, agent_alias_id, session_id,
                   completion, idx, completion_text>>

\* lines 321-332
create_agent_alias ==
    /\ pc = "create_agent_alias"
    /\ agent_id' = HardAgentId
    /\ \/ \E id \in AliasIds :
             /\ calls' = Append(calls,
                    Call("create_agent_alias",
                         [agentId |-> HardAgentId, agentAliasName |-> "demo"], TRUE,
                         [agentAlias |-> [agentAliasId |-> id]]))
             /\ agent_alias_id' = id
             /\ pc' = "poll_alias"
       \/ /\ calls' = Append(calls,
                 Call("create_agent_alias",
                      [agentId |-> HardAgentId, agentAliasName |-> "demo"], FALSE,
                      ClientError))
          /\ agent_alias_id' = agent_alias_id
          /\ pc' = "raised"
    /\ UNCHANGED <<invocations, FOUNDATION_MODEL, stdout, session_id, status, completion,
                   idx, completion_text>>

get_agent_alias(s) ==
    Call("get_agent_alias", [agentId |-> agent_id, agentAliasId |-> agent_alias_id],
         TRUE,
         [agentAlias |-> [agentAliasStatus |-> s,
                          routingConfiguration |-> <<[agentVersion |-> "1"]>>]])

\* the alias statuses the platform may report next: PREPARED and FAILED are
\* final, nothing in the run changes an alias once it has reported one of them
AliasAnswers ==
    LET seen == {i \in 1..Len(calls) : calls[i].api = "get_agent_alias"} IN
    IF seen = {} THEN AliasStatuses
    ELSE LET last == calls[CHOOSE i \in seen : \A j \in seen : j <= i]
                         .resp.agentAlias.agentAliasStatus IN
         IF last \in {"PREPARED", "FAILED"} THEN {last} ELSE AliasStatuses

\* where one test of the while condition of lines 340-341 leaves the run
after_alias_status(s) == IF s # "PREPARED" THEN "poll_alias" ELSE "alias_ready"

\* one test of the while condition of lines 340-342
poll_alias ==
    /\ pc = "poll_alias"
    /\ Fetches("get_agent_alias") < MaxPolls
    /\ \E s \in AliasAnswers :
          /\ calls' = Append(calls, get_agent_alias(s))
          /\ pc' = after_alias_status(s)
    /\ UNCHANGED <<invocations, FOUNDATION_MODEL, stdout, agent_id, agent_alias_id,
                   session_id, status, completion, idx, completion_text>>

\* the calls lines 344-347 issue once the loop has ended
alias_ready_calls(s) == <<get_agent_alias(s)>>

\* lines 344-347
alias_ready ==
    /\ pc = "alias_ready"
    /\ \E s \in AliasAnswers :
          /\ calls' = calls \o alias_ready_calls(s)
          /\ stdout' = Append(stdout,
                 [kind |-> "alias_ready", text |-> agent_alias_id, version |-> "1"])
          /\ pc' = "invoke_agent"
    /\ UNCHANGED <<invocations, FOUNDATION_MODEL, agent_id, agent_alias_id, session_id,
                   status, completion, idx, completion_text>>

(***************************************************************************)
(* 4. Invoke the agent and read the stream (main.py 401-451)               *)
(***************************************************************************)
\* bytes are numbers 0..255; text is a sequence of code points

\* bytes.decode(): strict UTF-8, here for one- and two-byte sequences
RECURSIVE CanDecode(_)
CanDecode(bs) ==
    IF bs = <<>> THEN TRUE
    ELSE IF bs[1] < 128 THEN CanDecode(Tail(bs))
    ELSE IF bs[1] \in 194..223 /\ Len(bs) >= 2 /\ bs[2] \in 128..191
         THEN CanDecode(Tail(Tail(bs)))
    ELSE FALSE

RECURSIVE decode(_)
decode(bs) ==
    IF bs = <<>> THEN <<>>
    ELSE IF bs[1] < 128 THEN <<bs[1]>> \o decode(Tail(bs))
    ELSE <<(bs[1] - 192) * 64 + (bs[2] - 128)>> \o decode(Tail(Tail(bs)))

\* assessment payloads, opaque to the reader
AssessTopic == [topicPolicy |->
    [topics |-> <<[name |-> "Heavy metal", type |-> "DENY", action |-> "BLOCKED"]>>]]
AssessWord == [wordPolicy |->
    [customWords |-> <<[match |-> "metal", action |-> "BLOCKED"]>>]]
AssessContent == [contentPolicy |->
    [filters |-> <<[type |-> "HATE", confidence |-> "HIGH", action |-> "BLOCKED"]>>]]

ChunkEvent(bs) == [chunk |-> [bytes |-> bs]]
GuardrailTraceEvent(g) == [trace |-> [trace |-> [guardrailTrace |-> g]]]

\* the events a stream is made of: the chunks "Hi", "e-acute !" and "!", two
\* guardrail traces (one without the outputAssessments key), a trace of another
\* kind, an event of another kind
Events ==
    { ChunkEvent(<<72, 105>>),
      ChunkEvent(<<195, 169, 33>>),
      ChunkEvent(<<33>>),
      GuardrailTraceEvent([action |-> "NONE", inputAssessments |-> <<AssessTopic>>]),
      GuardrailTraceEvent([action |-> "GUARDRAIL_INTERVENED",
                           inputAssessments |-> <<AssessWord, AssessTopic>>,
                           outputAssessments |-> <<AssessContent>>]),
      [trace |-> [trace |-> [orchestrationTrace |-> [rationale |-> "thinking"]]]],
      [returnControl |-> [invocationId |-> "rc-1"]] }

Streams == UNION {[1..n -> Events] : n \in 0..MaxEvents}

\* the streams the run of all sections is answered with
SampleStreams ==
    { <<>>,
      <<ChunkEvent(<<72, 105>>),
        GuardrailTraceEvent([action |-> "NONE", inputAssessments |-> <<AssessTopic>>]),
        ChunkEvent(<<195, 169, 33>>)>> }

\* g.get(key, [])
Get(g, key) == IF key \in DOMAIN g THEN g[key] ELSE <<>>

\* the lines the inner loop of 410-411 prints for one side
AssessmentLines(side, assessments) ==
    [i \in 1..Len(assessments) |->
        [kind |-> "assessment", side |-> side, policy |-> assessments[i]]]

\* SideLines with the two sides' lists exchanged
SideLines_swapped(g) ==
    AssessmentLines("INPUT", Get(g, "outputAssessments")) \o
    AssessmentLines("OUTPUT", Get(g, "inputAssessments"))

\* the (side, assessments) pairs of lines 408-409, printed in that order
SideLines(g) ==
    AssessmentLines("INPUT", Get(g, "inputAssessments")) \o
    AssessmentLines("OUTPUT", Get(g, "outputAssessments"))

\* lines 401-411
show_guardrail_trace(trace_part) ==
    LET g == trace_part.trace.guardrailTrace IN
    IF "action" \notin DOMAIN g
    THEN [out |-> <<[kind |-> "trace", g |-> g], [kind |-> "header"]>>,
          raised |-> TRUE]
    ELSE [out |-> <<[kind |-> "trace", g |-> g], [kind |-> "header"],
                    [kind |-> "overall_action", action |-> g.action]>> \o SideLines(g),
          raised |-> FALSE]

\* lines 444-446
chunk_branch(event) ==
    IF "chunk" \notin DOMAIN event
    THEN [out |-> <<>>, raised |-> FALSE]
    ELSE IF "bytes" \notin DOMAIN event.chunk \/ ~CanDecode(event.chunk.bytes)
    THEN [out |-> <<>>, raised |-> TRUE]
    ELSE [out |-> <<[kind |-> "write", text |-> decode(event.chunk.bytes)]>>,
          raised |-> FALSE]

\* lines 448-451
trace_branch(event) ==
    IF "trace" \notin DOMAIN event
    THEN [out |-> <<>>, raised |-> FALSE]
    ELSE LET trace_part == event.trace IN
         IF "trace" \in DOMAIN trace_part /\ "guardrailTrace" \in DOMAIN trace_part.trace
         THEN show_guardrail_trace(trace_part)
         ELSE [out |-> <<>>, raised |-> FALSE]

\* the body of the for loop, lines 444-451
handle_event(event) ==
    LET c == chunk_branch(event) IN
    IF c.raised THEN c
    ELSE LET t == trace_branch(event) IN
         [out |-> c.out \o t.out, raised |-> t.raised]

invoke_agent_request(s) ==
    [agentId |-> HardAgentId,
     agentAliasId |-> HardAliasId,
     sessionId |-> s,
     inputText |-> user_prompt,
     enableTrace |-> TRUE,
     streamingConfigurations |->
         [applyGuardrailInterval |-> 20, streamFinalResponse |-> FALSE]]

\* lines 419-441, answered with one of the streams of S
invoke_agent(S) ==
    /\ pc = "invoke_agent"
    /\ agent_id' = HardAgentId
    /\ agent_alias_id' = HardAliasId
    /\ \E s \in Uuids :
          /\ session_id' = s
          /\ \/ \E events \in S :
                   /\ calls' = Append(calls,
                          Call("invoke_agent", invoke_agent_request(s), TRUE,
                               [completion |-> events]))
                   /\ completion' = events
                   /\ idx' = 1
                   /\ pc' = "stream"
             \/ /\ calls' = Append(calls,
                       Call("invoke_agent", invoke_agent_request(s), FALSE, ClientError))
                /\ UNCHANGED <<completion, idx>>
                /\ pc' = "raised"
    /\ UNCHANGED <<invocations, FOUNDATION_MODEL, stdout, status, completion_text>>

\* stream_event putting what each pass writes ahead of what was written before
stream_event_prepend ==
    /\ pc = "stream"
    /\ idx <= Len(completion)
    /\ LET r == handle_event(completion[idx]) IN
          /\ stdout' = r.out \o stdout
          /\ pc' = IF r.raised THEN "raised" ELSE "stream"
    /\ idx' = idx + 1
    /\ UNCHANGED <<invocations, calls, FOUNDATION_MODEL, agent_id, agent_alias_id,
                   session_id, status, completion, completion_text>>

\* one pass of the for loop of lines 443-451
stream_event ==
    /\ pc = "stream"
    /\ idx <= Len(completion)
    /\ LET r == handle_event(completion[idx]) IN
          /\ stdout' = stdout \o r.out
          /\ pc' = IF r.raised THEN "raised" ELSE "stream"
    /\ idx' = idx + 1
    /\ UNCHANGED <<invocations, calls, FOUNDATION_MODEL, agent_id, agent_alias_id,
                   session_id, status, completion, completion_text>>

\* the for loop finds the stream exhausted
stream_end ==
    /\ pc = "stream"
    /\ idx > Len(completion)
    /\ pc' = "done"
    /\ UNCHANGED <<invocations, calls, stdout, FOUNDATION_MODEL, agent_id,
                   agent_alias_id, session_id, status, completion, idx, completion_text>>

NextScript ==
    \/ create_agent
    \/ prepare_agent
    \/ poll_agent
    \/ create_agent_alias
    \/ poll_alias
    \/ alias_ready
    \/ invoke_agent(SampleStreams)
    \/ stream_event
    \/ stream_end

Init == InitScript \/ InitDriver

Next == NextScript \/ NextDriver

Spec == Init /\ [][Next]_vars

\* a run of sections 2 to 3.5 that has reached the invoke_agent call: the
\* agent and the alias were created, and each reported PREPARED at once
InitReader ==
    /\ pc = "invoke_agent"
    /\ invocations = <<>>
    /\ FOUNDATION_MODEL = "anthropic.claude-3-haiku-20240307-v1:0"
    /\ agent_id = HardAgentId
    /\ agent_alias_id = "TSTALIASID"
    /\ session_id = Unset
    /\ status = "PREPARED"
    /\ completion = <<>>
    /\ idx = 0
    /\ completion_text = ""
    /\ calls =
          <<Call("create_agent", create_agent_request("demo-agent-guardrails-162c24"),
                 TRUE, [agent |-> [agentId |-> "5NCM7AF2D1"]]),
            Call("prepare_agent", [agentId |-> HardAgentId], TRUE,
                 [agentStatus |-> "PREPARING"]),
            Call("get_agent", [agentId |-> HardAgentId], TRUE,
                 [agent |-> [agentStatus |-> "PREPARED"]]),
            Call("create_agent_alias",
                 [agentId |-> HardAgentId, agentAliasName |-> "demo"], TRUE,
                 [agentAlias |-> [agentAliasId |-> "TSTALIASID"]]),
            get_agent_alias("PREPARED"),
            get_agent_alias("PREPARED")>>
    /\ stdout =
          <<[kind |-> "creating_agent", text |-> "demo-agent-guardrails-162c24"],
            [kind |-> "agent_id", text |-> "5NCM7AF2D1"],
            [kind |-> "preparing", text |-> HardAgentId],
            [kind |-> "status", text |-> "PREPARED"],
            [kind |-> "agent_ready", text |-> HardAgentId],
            [kind |-> "alias_ready", text |-> "TSTALIASID", version |-> "1"]>>

NextReader ==
    \/ invoke_agent(Streams)
    \/ stream_event
    \/ stream_end

SpecReader == InitReader /\ [][NextReader]_vars

\* events whose shape the loop does not expect: a chunk without the bytes
\* key (read at line 445), a guardrail trace without the action key (read at
\* line 406)
MalformedEvents ==
    { [chunk |-> [attribution |-> [citations |-> <<>>]]],
      GuardrailTraceEvent([inputAssessments |-> <<AssessTopic>>]) }

AnyEvents == Events \cup MalformedEvents

AnyStreams == UNION {[1..n -> AnyEvents] : n \in 0..MaxEvents}

NextAnyShape ==
    \/ invoke_agent(AnyStreams)
    \/ stream_event
    \/ stream_end

\* the read of section 4, answered with streams of events of any shape
SpecAnyShape == InitReader /\ [][NextAnyShape]_vars

(***************************************************************************)
(* Properties.                                                             *)
(***************************************************************************)
\* the greatest element of a non-empty set of numbers
Last(S) == CHOOSE i \in S : \A j \in S : j <= i

\* the places among the first n calls where status was fetched for this agent
AgentFetches(n, id) ==
    {j \in 1..n : calls[j].api = "get_agent" /\ calls[j].req.agentId = id}

\* ... and for this alias
AliasFetches(n, id) ==
    {j \in 1..n : calls[j].api = "get_agent_alias" /\ calls[j].req.agentAliasId = id}

\* the status the last of these fetches reported
LastAgentStatus(n, id) ==
    IF AgentFetches(n, id) = {} THEN "never polled"
    ELSE calls[Last(AgentFetches(n, id))].resp.agent.agentStatus

LastAliasStatus(n, id) ==
    IF AliasFetches(n, id) = {} THEN "never polled"
    ELSE calls[Last(AliasFetches(n, id))].resp.agentAlias.agentAliasStatus

\* the places among the first n calls where this api was called and answered
Answered(n, api) == {j \in 1..n : calls[j].api = api /\ calls[j].ok}

\* C1: invoke_agent is issued for an agent and an alias only after the poll
\* has last seen PREPARED for that agent id and for that alias id.
C1_InvokeOnlyAfterPrepared ==
    \A i \in 1..Len(calls) :
        calls[i].api = "invoke_agent" =>
            /\ LastAgentStatus(i - 1, calls[i].req.agentId) = "PREPARED"
            /\ LastAliasStatus(i - 1, calls[i].req.agentAliasId) = "PREPARED"

\* the guardrail ARN of an id, as the claims spell it
ArnOfGuardrail(gid) == "arn:aws:bedrock:us-east-1:637423356581:guardrail/" \o gid

\* C2: the service calls of a run come in the order create guardrail, create
\* role, create agent, poll agent, create alias, poll alias, invoke, and each
\* uses the identifiers the steps before it returned.
C2_OrderedAndThreaded ==
    \A i \in 1..Len(calls) :
        LET c == calls[i] IN
        /\ c.api = "create_agent" =>
              \E j \in Answered(i - 1, "create_guardrail") :
                 /\ calls[j].resp.guardrailId =
                        c.req.guardrailConfiguration.guardrailIdentifier
                 /\ \E k \in Answered(i - 1, "put_role_policy") :
                       /\ j < k
                       /\ calls[k].req.PolicyDocument.Statement[2].Resource =
                              ArnOfGuardrail(calls[j].resp.guardrailId)
                       /\ calls[k - 1].resp.Role.Arn = c.req.agentResourceRoleArn
        /\ c.api \in {"prepare_agent", "get_agent", "create_agent_alias"} =>
              /\ Answered(i - 1, "create_agent") # {}
              /\ calls[Last(Answered(i - 1, "create_agent"))].resp.agent.agentId =
                     c.req.agentId
        /\ c.api = "create_agent_alias" =>
              LastAgentStatus(i - 1, c.req.agentId) = "PREPARED"
        /\ c.api \in {"get_agent_alias", "invoke_agent"} =>
              /\ Answered(i - 1, "create_agent_alias") # {}
              /\ LET a == calls[Last(Answered(i - 1, "create_agent_alias"))] IN
                    /\ a.req.agentId = c.req.agentId
                    /\ a.resp.agentAlias.agentAliasId = c.req.agentAliasId
        /\ c.api = "invoke_agent" =>
              LastAliasStatus(i - 1, c.req.agentAliasId) = "PREPARED"

\* the status a fetch reported
FetchedStatus(c) ==
    IF c.api = "get_agent" THEN c.resp.agent.agentStatus
    ELSE c.resp.agentAlias.agentAliasStatus

IsFetch(c) == c.api \in {"get_agent", "get_agent_alias"}

\* C3: the poll of the agent and the poll of the alias issue no status fetch
\* after the fetch that saw PREPARED: with the first PREPARED at position n,
\* exactly n fetches.
C3_NoFetchAfterPrepared ==
    \A i \in 1..Len(calls) :
        (IsFetch(calls[i]) /\ FetchedStatus(calls[i]) = "PREPARED") =>
            \A j \in (i + 1)..Len(calls) : calls[j].api # calls[i].api

\* C4: the poll of the agent and the poll of the alias raise right after the
\* fetch that saw FAILED, and issue no further fetch.
C4_RaisesOnFailed ==
    \A i \in 1..Len(calls) :
        (IsFetch(calls[i]) /\ FetchedStatus(calls[i]) = "FAILED") =>
            /\ i = Len(calls)
            /\ pc = "raised"

\* the events the stream loop has been through
Consumed == SubSeq(completion, 1, idx - 1)

\* the chunk payloads of a sequence of events, joined in order
RECURSIVE ChunkBytes(_)
ChunkBytes(events) ==
    IF events = <<>> THEN <<>>
    ELSE (IF "chunk" \in DOMAIN events[1] THEN events[1].chunk.bytes ELSE <<>>)
         \o ChunkBytes(Tail(events))

IsGuardrailTrace(event) ==
    /\ "trace" \in DOMAIN event
    /\ "trace" \in DOMAIN event.trace
    /\ "guardrailTrace" \in DOMAIN event.trace.trace

\* the actions of the guardrail traces of a sequence of events, in order
RECURSIVE GuardrailActions(_)
GuardrailActions(events) ==
    IF events = <<>> THEN <<>>
    ELSE (IF IsGuardrailTrace(events[1])
          THEN <<events[1].trace.trace.guardrailTrace.action>> ELSE <<>>)
         \o GuardrailActions(Tail(events))

\* the text written so far: the arguments of sys.stdout.write, joined in order
RECURSIVE WrittenText(_)
WrittenText(out) ==
    IF out = <<>> THEN <<>>
    ELSE (IF out[1].kind = "write" THEN out[1].text ELSE <<>>)
         \o WrittenText(Tail(out))

\* the overall actions reported so far, in order
RECURSIVE ReportedActions(_)
ReportedActions(out) ==
    IF out = <<>> THEN <<>>
    ELSE (IF out[1].kind = "overall_action" THEN <<out[1].action>> ELSE <<>>)
         \o ReportedActions(Tail(out))

\* the read ended by an exception of its own (not by a rejected invoke_agent)
ReadRaised == pc = "raised" /\ calls[Len(calls)].ok

\* C5: for every event sequence the read runs to the end of the stream, the
\* text it writes is the text of the chunk payloads joined in delivery order,
\* and the trace actions it reports are those of the guardrail traces, in
\* order; both are functions of the event sequence alone, so a replay of the
\* same sequence yields the same text and the same action.
C5_StreamText ==
    /\ ~ReadRaised
    /\ pc \in {"stream", "done"} =>
          /\ WrittenText(stdout) = decode(ChunkBytes(Consumed))
          /\ ReportedActions(stdout) = GuardrailActions(Consumed)
    /\ pc = "done" => Consumed = completion

\* a read of [chunk "Hi", trace NONE, chunk "e-acute !"] has ended with the
\* text "Hi" "e-acute" "!" written and NONE reported
C5_Witness ==
    /\ pc = "done"
    /\ completion =
          <<ChunkEvent(<<72, 105>>),
            GuardrailTraceEvent([action |-> "NONE",
                                 inputAssessments |-> <<AssessTopic>>]),
            ChunkEvent(<<195, 169, 33>>)>>
    /\ WrittenText(stdout) = <<72, 105, 233, 33>>
    /\ ReportedActions(stdout) = <<"NONE">>

\* the assessments of one side, tagged with it
Tagged(side, assessments) ==
    [i \in 1..Len(assessments) |-> <<side, assessments[i]>>]

\* the assessments of the guardrail traces of a sequence of events: per trace
\* the input assessments, then the output assessments, each list in its order
RECURSIVE ExpectedAssessments(_)
ExpectedAssessments(events) ==
    IF events = <<>> THEN <<>>
    ELSE (IF IsGuardrailTrace(events[1])
          THEN LET g == events[1].trace.trace.guardrailTrace IN
               Tagged("INPUT", IF "inputAssessments" \in DOMAIN g
                               THEN g.inputAssessments ELSE <<>>) \o
               Tagged("OUTPUT", IF "outputAssessments" \in DOMAIN g
                                THEN g.outputAssessments ELSE <<>>)
          ELSE <<>>)
         \o ExpectedAssessments(Tail(events))

\* the assessments reported so far, each with the side it is reported under
RECURSIVE ReportedAssessments(_)
ReportedAssessments(out) ==
    IF out = <<>> THEN <<>>
    ELSE (IF out[1].kind = "assessment" THEN <<<<out[1].side, out[1].policy>>>>
          ELSE <<>>)
         \o ReportedAssessments(Tail(out))

\* C6: for every guardrail trace with input assessments I and output
\* assessments O the reader reports |I| assessments under INPUT and |O| under
\* OUTPUT, each list in its order and each payload unchanged, and reports no
\* other assessment.
C6_AssessmentsBySide ==
    pc \in {"stream", "done"} =>
        ReportedAssessments(stdout) = ExpectedAssessments(Consumed)

\* a read of a trace with two input assessments and one output assessment,
\* then one with a single input assessment and no output list, has ended
C6_Witness ==
    /\ pc = "done"
    /\ completion =
          <<GuardrailTraceEvent([action |-> "GUARDRAIL_INTERVENED",
                                 inputAssessments |-> <<AssessWord, AssessTopic>>,
                                 outputAssessments |-> <<AssessContent>>]),
            GuardrailTraceEvent([action |-> "NONE",
                                 inputAssessments |-> <<AssessTopic>>])>>
    /\ ReportedAssessments(stdout) =
          << <<"INPUT", AssessWord>>, <<"INPUT", AssessTopic>>,
             <<"OUTPUT", AssessContent>>, <<"INPUT", AssessTopic>> >>

\* the model ARN of a model id, as the claims spell it
ArnOfModel(m) == "arn:aws:bedrock:us-east-1::foundation-model/" \o m

\* the calls of create_role made so far
RoleInvocations == {v \in 1..Len(invocations) : invocations[v].fn = "create_role"}

\* the actions a policy statement grants
ActionsOf(st) == {st.Action[k] : k \in 1..Len(st.Action)}

InvokeActions == {"bedrock:InvokeModel", "bedrock:InvokeModelWithResponseStream"}

\* C7: for the configured model M and every guardrail id G passed in, the
\* permission policy create_role puts grants the invoke actions on exactly
\* M's ARN and bedrock:ApplyGuardrail on exactly G's ARN, and its statements
\* name no other resource and no wildcard.
C7_PermPolicyExactArns ==
    \A v \in RoleInvocations :
        LET G == invocations[v].guardrail_id
            at == invocations[v].at
        IN
        (G \in GuardrailIds /\ calls[at].ok) =>
            /\ at + 1 <= Len(calls)
            /\ calls[at + 1].api = "put_role_policy"
            /\ LET P == calls[at + 1].req.PolicyDocument
                   sts == {P.Statement[k] : k \in 1..Len(P.Statement)}
               IN
               /\ \A st \in sts :
                     /\ st.Effect = "Allow"
                     /\ st.Resource # "*"
                     /\ ActionsOf(st) \cap InvokeActions # {} =>
                            st.Resource = ArnOfModel(FOUNDATION_MODEL)
                     /\ "bedrock:ApplyGuardrail" \in ActionsOf(st) =>
                            st.Resource = ArnOfGuardrail(G)
               /\ \E st \in sts :
                     InvokeActions \subseteq ActionsOf(st)
               /\ \E st \in sts :
                     "bedrock:ApplyGuardrail" \in ActionsOf(st)
               /\ {st.Resource : st \in sts} =
                      {ArnOfModel(FOUNDATION_MODEL), ArnOfGuardrail(G)}

\* create_role has put the policy for guardrail a6w0gl4ttetz with the model
\* of the comment of line 94 configured
C7_Witness ==
    \E v \in RoleInvocations :
        /\ invocations[v].guardrail_id = "a6w0gl4ttetz"
        /\ FOUNDATION_MODEL = "meta.llama3-8b-instruct-v1:0"
        /\ invocations[v].at + 1 <= Len(calls)
        /\ calls[invocations[v].at + 1].api = "put_role_policy"
        /\ calls[invocations[v].at + 1].ok

\* the trust policy a call of create_role sent
TrustOf(v) == calls[invocations[v].at].req.AssumeRolePolicyDocument

\* the ARNs a trust policy names
TrustArns(T) ==
    {T.Statement[k].Condition.ArnLike["AWS:SourceArn"] : k \in 1..Len(T.Statement)}

\* C8 as stated: the trust policy create_role generates references the ARN of
\* the guardrail id passed in, so that two guardrail ids give trust policies
\* that differ in the guardrail ARN segment.
C8_TrustNamesGuardrailArn ==
    \A v \in RoleInvocations :
        /\ invocations[v].guardrail_id \in GuardrailIds =>
              ArnOfGuardrail(invocations[v].guardrail_id) \in TrustArns(TrustOf(v))
        /\ \A w \in RoleInvocations :
              invocations[v].guardrail_id # invocations[w].guardrail_id =>
                  TrustOf(v) # TrustOf(w)

\* C8 as amended: the trust policy create_role generates is scoped to the
\* caller's account id (aws:SourceAccount, and the agent/* source ARN pattern
\* of that account) and does not reference the guardrail: it is the same for
\* every guardrail id passed in; the ARN of that guardrail id is the resource
\* of the permission policy's ApplyGuardrail statement.
C8_TrustScopedToAccount ==
    \A v \in RoleInvocations :
        LET T == TrustOf(v)
            at == invocations[v].at
        IN
        /\ Len(T.Statement) = 1
        /\ T.Statement[1].Effect = "Allow"
        /\ T.Statement[1].Principal.Service = "bedrock.amazonaws.com"
        /\ T.Statement[1].Action = "sts:AssumeRole"
        /\ T.Statement[1].Condition.StringEquals["aws:SourceAccount"] = "637423356581"
        /\ TrustArns(T) = {"arn:aws:bedrock:us-east-1:637423356581:agent/*"}
        /\ \A w \in RoleInvocations : TrustOf(w) = T
        /\ calls[at].ok =>
              calls[at + 1].req.PolicyDocument.Statement[2].Resource =
                  ArnOfGuardrail(invocations[v].guardrail_id)

\* create_role has been called for two different guardrail ids, and has put
\* its permission policy for one of them
C8_Witness ==
    \E v, w \in RoleInvocations :
        /\ invocations[v].guardrail_id = "k6582ey6du0o"
        /\ invocations[w].guardrail_id = "a6w0gl4ttetz"
        /\ calls[invocations[v].at].ok
        /\ Len(calls) >= invocations[w].at

\* the calls that create, put or prepare a resource
ProvisioningApis ==
    {"create_guardrail", "create_role", "put_role_policy", "create_agent",
     "prepare_agent", "create_agent_alias"}

\* every api the run may call: none deletes a resource
NonDeletingApis ==
    ProvisioningApis \cup
    {"get_agent", "get_agent_alias", "apply_guardrail", "invoke_agent"}

RoleReadyLines == {i \in 1..Len(stdout) : stdout[i].kind = "role_ready"}

\* C9: a rejected create or put call is the last service call of the run: the
\* run has ended by the exception, nothing is retried or issued after it (in
\* create_role, no put_role_policy after a rejected create_role, and the role
\* is reported ready only when its policy was put), and nothing is deleted.
C9_RejectedCallEndsRun ==
    /\ \A i \in 1..Len(calls) :
          /\ calls[i].api \in NonDeletingApis
          /\ (calls[i].api \in ProvisioningApis /\ ~calls[i].ok) =>
                /\ i = Len(calls)
                /\ pc = "raised"
    /\ \A i \in Answered(Len(calls), "put_role_policy") :
          /\ i > 1
          /\ calls[i - 1].api = "create_role"
          /\ calls[i - 1].ok
    /\ Cardinality(RoleReadyLines) =
           Cardinality(Answered(Len(calls), "put_role_policy"))

\* create_role was rejected after a guardrail had been created: the run has
\* ended there, with the guardrail left in place
C9_Witness ==
    /\ pc = "raised"
    /\ Len(calls) = 2
    /\ calls[1].api = "create_guardrail" /\ calls[1].ok
    /\ calls[2].api = "create_role" /\ ~calls[2].ok
    /\ RoleReadyLines = {}

\* an answer of apply_guardrail that has the structure check() reads
HasAssessmentStructure(resp) ==
    /\ Len(resp.assessments) >= 1
    /\ "contextualGroundingPolicy" \in DOMAIN resp.assessments[1]
    /\ Len(resp.assessments[1].contextualGroundingPolicy.filters) >= 2

\* the candidate answer an apply_guardrail call submitted
GuardContent(c) == c.req.content[3].text

\* C10: when the answer of apply_guardrail for one candidate lacks the
\* assessment structure, only that evaluation fails: the run goes on and the
\* remaining candidate answers are still evaluated.
C10_OtherAnswersStillEvaluated ==
    \A i \in 1..Len(calls) :
        (/\ calls[i].api = "apply_guardrail"
         /\ calls[i].ok
         /\ ~HasAssessmentStructure(calls[i].resp)
         /\ GuardContent(calls[i]) = ANSWERS[1].text) =>
            /\ pc # "raised"
            /\ i + 1 <= Len(calls)
            /\ calls[i + 1].api = "apply_guardrail"
            /\ GuardContent(calls[i + 1]) = ANSWERS[2].text

\* a chunk event as line 445 reads it
IsChunk(event) == "chunk" \in DOMAIN event /\ "bytes" \in DOMAIN event.chunk

\* a trace event as lines 449-451 and 403-406 read it: a guardrail trace
\* carries its action; a trace of another kind is passed over by design
IsTrace(event) ==
    /\ "trace" \in DOMAIN event
    /\ IsGuardrailTrace(event) => "action" \in DOMAIN event.trace.trace.guardrailTrace

Recognized(event) == IsChunk(event) \/ IsTrace(event)

\* the loop is about to handle an event of neither shape
AtUnrecognized ==
    /\ pc = "stream"
    /\ idx <= Len(completion)
    /\ ~Recognized(completion[idx])

\* C11: an event that is neither a recognized chunk nor a recognized trace
\* is logged and skipped without ending the read: the pass over it puts out
\* a line about it, writes no text for it, and leaves the loop running on
\* the next event, so that the later events are consumed and the chunks
\* before and after it are written.
C11_UnrecognizedLoggedAndSkipped ==
    [][AtUnrecognized =>
          /\ Len(stdout') > Len(stdout)
          /\ WrittenText(stdout') = WrittenText(stdout)
          /\ idx' = idx + 1
          /\ pc' = "stream"]_vars

====
